---- MODULE Spec2Model ----
(***************************************************************************)
(* Model of the speech-tools real-time pipeline primitives:                *)
(*   - SPSCLockFreeQueue<T>  (src/src/common/src/spsc_queue.hh)            *)
(*   - SpeechFilter<In,Out>  (src/src/common/src/speech_filter.hh)         *)
(*                                                                         *)
(* Every load and store of an atomic index, and every access to a buffer   *)
(* slot, is one step of the thread that performs it, so the interleavings  *)
(* of a producer inside try_push and a consumer inside try_pop are all     *)
(* explored.  Two specifications are given: SpecQ drives one queue with a  *)
(* producer and a consumer thread (the harness of spsc_queue_test.cc), and *)
(* SpecStage drives a SpeechFilter between an input and an output queue.   *)
(***************************************************************************)
EXTENDS Integers, Sequences, FiniteSets, TLC

VARIABLES
  queues,      \* queue id -> [capacity_, head_, tail_, buffer_]; the domain is the set of constructed queues
  thrown,      \* what the last SPSCLockFreeQueue constructor call threw: "none" or "runtime_error"
  threads,     \* thread id -> the locals of the try_push / try_pop call it is in, and its last result
  pushed,      \* history: queue id -> values of the successful try_push calls, in order
  popped,      \* history: queue id -> values of the successful try_pop calls, in order
  overlapped,  \* history: some step was taken while another thread was inside a call
  running_,    \* SpeechFilter::running_
  alive,       \* the SpeechFilter object exists (constructed, not yet destroyed)
  wpc,         \* where the thread executing SpeechFilter::processLoop is in the loop
  input_data,  \* processLoop's local input_data
  output_data, \* processLoop's local output_data
  stopCalled,  \* history: stop() was called, or the stage was destroyed
  startCalled  \* history: start() was called

vars == <<queues, thrown, threads, pushed, popped, overlapped,
          running_, alive, wpc, input_data, output_data, stopCalled, startCalled>>

stageVars == <<running_, alive, wpc, input_data, output_data, stopCalled, startCalled>>

-----------------------------------------------------------------------------
(* Bounds of the model. *)

\* Largest capacity handed to the queue constructor in SpecQ (0 is tried too).
MaxCap == 3

\* Number N of values the producer pushes (0..N-1), as the loops of the tests.
MaxItems == 5

\* Capacity of the input and of the output queue of the stage in SpecStage.
StageCap == 1

\* Number of values fed to the stage's input queue in SpecStage.
StageItems == 3

-----------------------------------------------------------------------------
(* SPSCLockFreeQueue: pure members. *)

\* T{} for T = int: what make_unique<T[]> value-initialises every slot to.
DefaultT == 0

\* Mutant of next_index: wraps at capacity_ instead of capacity_ + 1, as if the
\* spare slot that tells full from empty had been forgotten.
next_index_mut(q, current_index) == (current_index + 1) % q.capacity_

\* size_t next_index(size_t current_index) const
next_index(q, current_index) == (current_index + 1) % (q.capacity_ + 1)

\* size_t size() const
size(q) ==
  LET current_head == q.head_
      current_tail == q.tail_
  IN  IF current_tail >= current_head
        THEN current_tail - current_head
        ELSE q.capacity_ + current_tail - current_head

\* bool empty() const
empty(q) == q.head_ = q.tail_

\* bool full() const
full(q) == next_index(q, q.tail_) = q.head_

\* The object the constructor builds: capacity+1 value-initialised slots,
\* capacity_ = capacity, head_ = 0, tail_ = 0.
NewQueue(capacity) ==
  [capacity_ |-> capacity,
   head_     |-> 0,
   tail_     |-> 0,
   buffer_   |-> [i \in 0..capacity |-> DefaultT]]

\* The locals of a thread that is in no call.
IdleThread ==
  [pc |-> "idle", q |-> "none", value |-> DefaultT,
   current_tail |-> 0, next_tail |-> 0, current_head |-> 0, ret |-> "none"]

\* Some thread other than t is inside a try_push / try_pop call.
OtherInCall(t) == \E u \in DOMAIN threads : u # t /\ threads[u].pc # "idle"

\* Every queue step records whether it was taken concurrently with another call.
NoteOverlap(t) == overlapped' = (overlapped \/ OtherInCall(t))

-----------------------------------------------------------------------------
(* SPSCLockFreeQueue: constructor. *)

\* Mutant of Construct: the capacity == 0 check is missing.
Construct_mut(k, capacity) ==
  /\ k \notin DOMAIN queues
  /\ thrown' = "none"
  /\ queues' = [x \in DOMAIN queues \cup {k} |->
                  IF x = k THEN NewQueue(capacity) ELSE queues[x]]
  /\ UNCHANGED <<threads, pushed, popped, overlapped>>
  /\ UNCHANGED stageVars

\* explicit SPSCLockFreeQueue(size_t capacity): the slots are allocated by the
\* member initialiser, then capacity == 0 throws and no object comes to exist.
Construct(k, capacity) ==
  /\ k \notin DOMAIN queues
  /\ IF capacity = 0
       THEN /\ thrown' = "runtime_error"
            /\ UNCHANGED queues
       ELSE /\ thrown' = "none"
            /\ queues' = [x \in DOMAIN queues \cup {k} |->
                            IF x = k THEN NewQueue(capacity) ELSE queues[x]]
  /\ UNCHANGED <<threads, pushed, popped, overlapped>>
  /\ UNCHANGED stageVars

-----------------------------------------------------------------------------
(* SPSCLockFreeQueue::try_push(const T& value), one action per memory access. *)

\* A thread enters try_push(v) on queue k.
BeginPush(t, k, v) ==
  threads' = [threads EXCEPT ![t] =
                [@ EXCEPT !.pc = "push_load_tail", !.q = k, !.value = v, !.ret = "none"]]

\* A thread returns r from its call; the call's locals die.
Return(t, r) ==
  [threads[t] EXCEPT !.pc = "idle", !.q = "none", !.ret = r,
                     !.current_tail = 0, !.next_tail = 0, !.current_head = 0]

\* current_tail = tail_.load(relaxed); next_tail = next_index(current_tail)
try_push_load_tail(t) ==
  /\ threads[t].pc = "push_load_tail"
  /\ LET q == queues[threads[t].q] IN
       threads' = [threads EXCEPT ![t] =
                     [@ EXCEPT !.pc = "push_check",
                               !.current_tail = q.tail_,
                               !.next_tail = next_index(q, q.tail_)]]
  /\ NoteOverlap(t)
  /\ UNCHANGED <<queues, thrown, pushed, popped>>
  /\ UNCHANGED stageVars

\* Mutant of try_push_check: the full test is missing.
try_push_check_mut(t) ==
  /\ threads[t].pc = "push_check"
  /\ threads' = [threads EXCEPT ![t] = [@ EXCEPT !.pc = "push_write"]]
  /\ NoteOverlap(t)
  /\ UNCHANGED <<queues, thrown, pushed, popped>>
  /\ UNCHANGED stageVars

\* if (next_tail == head_.load(acquire)) return false;
try_push_check(t) ==
  /\ threads[t].pc = "push_check"
  /\ LET q == queues[threads[t].q] IN
       IF threads[t].next_tail = q.head_
         THEN threads' = [threads EXCEPT ![t] = Return(t, "false")]
         ELSE threads' = [threads EXCEPT ![t] = [@ EXCEPT !.pc = "push_write"]]
  /\ NoteOverlap(t)
  /\ UNCHANGED <<queues, thrown, pushed, popped>>
  /\ UNCHANGED stageVars

\* buffer_[current_tail] = value;
try_push_write(t) ==
  /\ threads[t].pc = "push_write"
  /\ queues' = [queues EXCEPT ![threads[t].q].buffer_[threads[t].current_tail] =
                                threads[t].value]
  /\ threads' = [threads EXCEPT ![t] = [@ EXCEPT !.pc = "push_store"]]
  /\ NoteOverlap(t)
  /\ UNCHANGED <<thrown, pushed, popped>>
  /\ UNCHANGED stageVars

\* Mutant of try_push_store: tail_ is advanced by two slots.
try_push_store_mut(t) ==
  /\ threads[t].pc = "push_store"
  /\ LET q == queues[threads[t].q] IN
       queues' = [queues EXCEPT ![threads[t].q].tail_ =
                                  next_index(q, threads[t].next_tail)]
  /\ pushed' = [pushed EXCEPT ![threads[t].q] = Append(@, threads[t].value)]
  /\ threads' = [threads EXCEPT ![t] = Return(t, "true")]
  /\ NoteOverlap(t)
  /\ UNCHANGED <<thrown, popped>>
  /\ UNCHANGED stageVars

\* tail_.store(next_tail, release); return true;
try_push_store(t) ==
  /\ threads[t].pc = "push_store"
  /\ queues' = [queues EXCEPT ![threads[t].q].tail_ = threads[t].next_tail]
  /\ pushed' = [pushed EXCEPT ![threads[t].q] = Append(@, threads[t].value)]
  /\ threads' = [threads EXCEPT ![t] = Return(t, "true")]
  /\ NoteOverlap(t)
  /\ UNCHANGED <<thrown, popped>>
  /\ UNCHANGED stageVars

-----------------------------------------------------------------------------
(* SPSCLockFreeQueue::try_pop(T& value), one action per memory access. *)

\* A thread enters try_pop(out) on queue k; out currently holds v.
BeginPop(t, k, v) ==
  threads' = [threads EXCEPT ![t] =
                [@ EXCEPT !.pc = "pop_load_head", !.q = k, !.value = v, !.ret = "none"]]

\* Mutant of try_pop_load_head: the slot is moved into value before the
\* emptiness test.
try_pop_load_head_mut(t) ==
  /\ threads[t].pc = "pop_load_head"
  /\ LET q == queues[threads[t].q] IN
       threads' = [threads EXCEPT ![t] =
                     [@ EXCEPT !.pc = "pop_check",
                               !.current_head = q.head_,
                               !.value = q.buffer_[q.head_]]]
  /\ NoteOverlap(t)
  /\ UNCHANGED <<queues, thrown, pushed, popped>>
  /\ UNCHANGED stageVars

\* current_head = head_.load(relaxed)
try_pop_load_head(t) ==
  /\ threads[t].pc = "pop_load_head"
  /\ threads' = [threads EXCEPT ![t] =
                   [@ EXCEPT !.pc = "pop_check",
                             !.current_head = queues[threads[t].q].head_]]
  /\ NoteOverlap(t)
  /\ UNCHANGED <<queues, thrown, pushed, popped>>
  /\ UNCHANGED stageVars

\* Mutant of try_pop_check: the emptiness test is missing.
try_pop_check_mut(t) ==
  /\ threads[t].pc = "pop_check"
  /\ threads' = [threads EXCEPT ![t] = [@ EXCEPT !.pc = "pop_read"]]
  /\ NoteOverlap(t)
  /\ UNCHANGED <<queues, thrown, pushed, popped>>
  /\ UNCHANGED stageVars

\* if (current_head == tail_.load(acquire)) return false;
try_pop_check(t) ==
  /\ threads[t].pc = "pop_check"
  /\ IF threads[t].current_head = queues[threads[t].q].tail_
       THEN threads' = [threads EXCEPT ![t] = Return(t, "false")]
       ELSE threads' = [threads EXCEPT ![t] = [@ EXCEPT !.pc = "pop_read"]]
  /\ NoteOverlap(t)
  /\ UNCHANGED <<queues, thrown, pushed, popped>>
  /\ UNCHANGED stageVars

\* Mutant of try_pop_read: the slot after head is read.
try_pop_read_mut(t) ==
  /\ threads[t].pc = "pop_read"
  /\ LET q == queues[threads[t].q] IN
       threads' = [threads EXCEPT ![t] =
                     [@ EXCEPT !.pc = "pop_store",
                               !.value = q.buffer_[next_index(q, threads[t].current_head)]]]
  /\ NoteOverlap(t)
  /\ UNCHANGED <<queues, thrown, pushed, popped>>
  /\ UNCHANGED stageVars

\* value = std::move(buffer_[current_head]);  (a moved-from int keeps its value)
try_pop_read(t) ==
  /\ threads[t].pc = "pop_read"
  /\ threads' = [threads EXCEPT ![t] =
                   [@ EXCEPT !.pc = "pop_store",
                             !.value = queues[threads[t].q].buffer_[threads[t].current_head]]]
  /\ NoteOverlap(t)
  /\ UNCHANGED <<queues, thrown, pushed, popped>>
  /\ UNCHANGED stageVars

\* Mutant of try_pop_store: head_ is stored back without being advanced.
try_pop_store_mut(t) ==
  /\ threads[t].pc = "pop_store"
  /\ queues' = [queues EXCEPT ![threads[t].q].head_ = threads[t].current_head]
  /\ popped' = [popped EXCEPT ![threads[t].q] = Append(@, threads[t].value)]
  /\ threads' = [threads EXCEPT ![t] = Return(t, "true")]
  /\ NoteOverlap(t)
  /\ UNCHANGED <<thrown, pushed>>
  /\ UNCHANGED stageVars

\* head_.store(next_index(current_head), release); return true;
try_pop_store(t) ==
  /\ threads[t].pc = "pop_store"
  /\ LET q == queues[threads[t].q] IN
       queues' = [queues EXCEPT ![threads[t].q].head_ =
                                  next_index(q, threads[t].current_head)]
  /\ popped' = [popped EXCEPT ![threads[t].q] = Append(@, threads[t].value)]
  /\ threads' = [threads EXCEPT ![t] = Return(t, "true")]
  /\ NoteOverlap(t)
  /\ UNCHANGED <<thrown, pushed>>
  /\ UNCHANGED stageVars

-----------------------------------------------------------------------------
(* SpecQ: one queue, one producer thread, one consumer thread              *)
(* (spsc_queue_test.cc: the producer pushes i = 0..N-1, calling try_push   *)
(* again with the same i after a false; the consumer pops N times).        *)

\* producer: while (!q.try_push(i)) {}   for i = 0..N-1
producer_call ==
  /\ "q" \in DOMAIN queues
  /\ threads["producer"].pc = "idle"
  /\ Len(pushed["q"]) < MaxItems
  /\ BeginPush("producer", "q", Len(pushed["q"]))
  /\ UNCHANGED <<queues, thrown, pushed, popped, overlapped>>
  /\ UNCHANGED stageVars

\* consumer: while (!q.try_pop(v)) {}   N times; v keeps its last value
consumer_call ==
  /\ "q" \in DOMAIN queues
  /\ threads["consumer"].pc = "idle"
  /\ Len(popped["q"]) < MaxItems
  /\ BeginPop("consumer", "q", threads["consumer"].value)
  /\ UNCHANGED <<queues, thrown, pushed, popped, overlapped>>
  /\ UNCHANGED stageVars

\* SPSCLockFreeQueue<int> q(capacity);
ConstructQ == \E capacity \in 0..MaxCap : Construct("q", capacity)

QThreads == {"producer", "consumer"}

EmptyFn == [x \in {} |-> 0]

InitQ ==
  /\ queues = EmptyFn
  /\ thrown = "none"
  /\ threads = [t \in QThreads |-> IdleThread]
  /\ pushed = [k \in {"q"} |-> <<>>]
  /\ popped = [k \in {"q"} |-> <<>>]
  /\ overlapped = FALSE
  /\ running_ = FALSE
  /\ alive = FALSE
  /\ wpc = "none"
  /\ input_data = DefaultT
  /\ output_data = DefaultT
  /\ stopCalled = FALSE
  /\ startCalled = FALSE

NextQ ==
  \/ ConstructQ
  \/ producer_call
  \/ consumer_call
  \/ \E t \in QThreads : try_push_load_tail(t)
  \/ \E t \in QThreads : try_push_check(t)
  \/ \E t \in QThreads : try_push_write(t)
  \/ \E t \in QThreads : try_push_store(t)
  \/ \E t \in QThreads : try_pop_load_head(t)
  \/ \E t \in QThreads : try_pop_check(t)
  \/ \E t \in QThreads : try_pop_read(t)
  \/ \E t \in QThreads : try_pop_store(t)

SpecQ == InitQ /\ [][NextQ]_vars

\* The steps of the producer thread: its retry loop and the calls it makes.
ProducerStep ==
  \/ producer_call
  \/ try_push_load_tail("producer") \/ try_push_check("producer")
  \/ try_push_write("producer") \/ try_push_store("producer")

\* The steps of the consumer thread: its retry loop and the calls it makes.
ConsumerStep ==
  \/ consumer_call
  \/ try_pop_load_head("consumer") \/ try_pop_check("consumer")
  \/ try_pop_read("consumer") \/ try_pop_store("consumer")

\* SpecQ with the producer and the consumer thread scheduled weakly fairly.
SpecQFair == InitQ /\ [][NextQ]_vars /\ WF_vars(ProducerStep) /\ WF_vars(ConsumerStep)

-----------------------------------------------------------------------------
(* SpeechFilter<InType, OutType>.                                           *)
(* The class declares no destructor and start() starts no thread:          *)
(* processLoop() is a protected member that the concrete stage's worker    *)
(* thread calls, so entering it is a step of that thread.                  *)

\* The transform of the concrete stage (DummyFilter::process: input * 2),
\* called by processLoop as processData(input_data).
processData(x) == x * 2

\* running_.load(relaxed), as the worker sees it.  Once the stage object is
\* destroyed the load reads released storage: either value may come back.
LoadRunning(b) == IF alive THEN b = running_ ELSE b \in BOOLEAN

\* void start() { running_ = true; }
start ==
  /\ alive
  /\ running_' = TRUE
  /\ startCalled' = TRUE
  /\ UNCHANGED <<alive, wpc, input_data, output_data, stopCalled>>
  /\ UNCHANGED <<queues, thrown, threads, pushed, popped, overlapped>>

\* void stop() { running_ = false; }
stop ==
  /\ alive
  /\ running_' = FALSE
  /\ stopCalled' = TRUE
  /\ UNCHANGED startCalled
  /\ UNCHANGED <<alive, wpc, input_data, output_data>>
  /\ UNCHANGED <<queues, thrown, threads, pushed, popped, overlapped>>

\* ~SpeechFilter(): implicitly defined.  It destroys the members (proc_thread_
\* was never started, so it is not joinable) and does nothing else: running_
\* is not cleared and no thread is waited for.
Destroy ==
  /\ alive
  /\ alive' = FALSE
  /\ stopCalled' = TRUE
  /\ UNCHANGED startCalled
  /\ UNCHANGED <<running_, wpc, input_data, output_data>>
  /\ UNCHANGED <<queues, thrown, threads, pushed, popped, overlapped>>

\* The worker thread calls processLoop():  InType input_data;
processLoop_enter ==
  /\ alive
  /\ wpc = "none"
  /\ wpc' = "while"
  /\ input_data' = DefaultT
  /\ UNCHANGED <<running_, alive, output_data, stopCalled, startCalled>>
  /\ UNCHANGED <<queues, thrown, threads, pushed, popped, overlapped>>

\* Mutant of processLoop_while: a do-while loop, the flag is not tested before
\* try_pop is entered.
processLoop_while_mut ==
  /\ wpc = "while"
  /\ wpc' = "try_pop"
  /\ BeginPop("worker", "in", input_data)
  /\ UNCHANGED <<running_, alive, input_data, output_data, stopCalled, startCalled>>
  /\ UNCHANGED <<queues, thrown, pushed, popped, overlapped>>

\* while (running_.load(relaxed)) { if (inQueue_.try_pop(input_data)) ...
\* The flag is loaded; if set the worker enters try_pop, else processLoop returns.
processLoop_while ==
  /\ wpc = "while"
  /\ \E b \in BOOLEAN :
       /\ LoadRunning(b)
       /\ IF b
            THEN /\ wpc' = "try_pop"
                 /\ BeginPop("worker", "in", input_data)
            ELSE /\ wpc' = "none"
                 /\ UNCHANGED threads
  /\ UNCHANGED <<running_, alive, input_data, output_data, stopCalled, startCalled>>
  /\ UNCHANGED <<queues, thrown, pushed, popped, overlapped>>

\* Mutant of processLoop_popped: the frame is dropped when the output queue is
\* seen full instead of being pushed.
processLoop_popped_mut ==
  /\ wpc = "try_pop"
  /\ threads["worker"].pc = "idle"
  /\ IF threads["worker"].ret = "true"
       THEN /\ input_data' = threads["worker"].value
            /\ output_data' = processData(threads["worker"].value)
            /\ IF full(queues["out"])
                 THEN wpc' = "while" /\ UNCHANGED threads
                 ELSE /\ wpc' = "try_push"
                      /\ BeginPush("worker", "out", processData(threads["worker"].value))
       ELSE /\ wpc' = "while"
            /\ UNCHANGED <<threads, input_data, output_data>>
  /\ UNCHANGED <<running_, alive, stopCalled, startCalled>>
  /\ UNCHANGED <<queues, thrown, pushed, popped, overlapped>>

\* try_pop has returned.  true: OutType output_data = processData(input_data),
\* then the first outQueue_.try_push(output_data) is entered.
\* false: std::this_thread::yield(), back to the loop condition.
processLoop_popped ==
  /\ wpc = "try_pop"
  /\ threads["worker"].pc = "idle"
  /\ IF threads["worker"].ret = "true"
       THEN /\ input_data' = threads["worker"].value
            /\ output_data' = processData(threads["worker"].value)
            /\ wpc' = "try_push"
            /\ BeginPush("worker", "out", processData(threads["worker"].value))
       ELSE /\ wpc' = "while"
            /\ UNCHANGED <<threads, input_data, output_data>>
  /\ UNCHANGED <<running_, alive, stopCalled, startCalled>>
  /\ UNCHANGED <<queues, thrown, pushed, popped, overlapped>>

\* Mutant of processLoop_pushed: a failed push is not retried.
processLoop_pushed_mut ==
  /\ wpc = "try_push"
  /\ threads["worker"].pc = "idle"
  /\ wpc' = "while"
  /\ UNCHANGED threads
  /\ UNCHANGED <<running_, alive, input_data, output_data, stopCalled, startCalled>>
  /\ UNCHANGED <<queues, thrown, pushed, popped, overlapped>>

\* Mutant of processLoop_pushed: the retry loop does not test the flag,
\* while (!outQueue_.try_push(output_data)) {}.
processLoop_pushed_noflag_mut ==
  /\ wpc = "try_push"
  /\ threads["worker"].pc = "idle"
  /\ IF threads["worker"].ret = "true"
       THEN /\ wpc' = "while"
            /\ UNCHANGED threads
       ELSE /\ wpc' = "try_push"
            /\ BeginPush("worker", "out", output_data)
  /\ UNCHANGED <<running_, alive, input_data, output_data, stopCalled, startCalled>>
  /\ UNCHANGED <<queues, thrown, pushed, popped, overlapped>>

\* while (!outQueue_.try_push(output_data) && running_.load(relaxed)) {}
\* try_push has returned.  true: the inner loop ends without loading the flag.
\* false: the flag is loaded; if set try_push is entered again with the same
\* output_data, else the inner loop ends and output_data is discarded.
processLoop_pushed ==
  /\ wpc = "try_push"
  /\ threads["worker"].pc = "idle"
  /\ IF threads["worker"].ret = "true"
       THEN /\ wpc' = "while"
            /\ UNCHANGED threads
       ELSE \E b \in BOOLEAN :
              /\ LoadRunning(b)
              /\ IF b
                   THEN /\ wpc' = "try_push"
                        /\ BeginPush("worker", "out", output_data)
                   ELSE /\ wpc' = "while"
                        /\ UNCHANGED threads
  /\ UNCHANGED <<running_, alive, input_data, output_data, stopCalled, startCalled>>
  /\ UNCHANGED <<queues, thrown, pushed, popped, overlapped>>

-----------------------------------------------------------------------------
(* SpecStage: a stage between an input and an output queue                 *)
(* (speech_filter_test.cc: IntQueue in, out; DummyFilter filter(in, out);  *)
(* in.try_push(3); in.try_push(7); out.try_pop(val)).  The upstream feeder *)
(* and the downstream drainer are threads of their own.                    *)

\* The i-th value fed (from 0): 3, 7, 11, ...
FeedValue(i) == 3 + 4 * i

\* in.try_push(3); in.try_push(7); ...
feeder_call ==
  /\ threads["feeder"].pc = "idle"
  /\ Len(pushed["in"]) < StageItems
  /\ BeginPush("feeder", "in", FeedValue(Len(pushed["in"])))
  /\ UNCHANGED <<queues, thrown, pushed, popped, overlapped>>
  /\ UNCHANGED stageVars

\* out.try_pop(val)
drainer_call ==
  /\ threads["drainer"].pc = "idle"
  /\ Len(popped["out"]) < StageItems
  /\ BeginPop("drainer", "out", threads["drainer"].value)
  /\ UNCHANGED <<queues, thrown, pushed, popped, overlapped>>
  /\ UNCHANGED stageVars

SThreads == {"feeder", "worker", "drainer"}

\* IntQueue in(c), out(c); DummyFilter filter(in, out);
InitStage ==
  /\ queues = [k \in {"in", "out"} |-> NewQueue(StageCap)]
  /\ thrown = "none"
  /\ threads = [t \in SThreads |-> IdleThread]
  /\ pushed = [k \in {"in", "out"} |-> <<>>]
  /\ popped = [k \in {"in", "out"} |-> <<>>]
  /\ overlapped = FALSE
  /\ running_ = FALSE
  /\ alive = TRUE
  /\ wpc = "none"
  /\ input_data = DefaultT
  /\ output_data = DefaultT
  /\ stopCalled = FALSE
  /\ startCalled = FALSE

NextStage ==
  \/ start
  \/ stop
  \/ Destroy
  \/ processLoop_enter
  \/ processLoop_while
  \/ processLoop_popped
  \/ processLoop_pushed
  \/ feeder_call
  \/ drainer_call
  \/ \E t \in SThreads : try_push_load_tail(t)
  \/ \E t \in SThreads : try_push_check(t)
  \/ \E t \in SThreads : try_push_write(t)
  \/ \E t \in SThreads : try_push_store(t)
  \/ \E t \in SThreads : try_pop_load_head(t)
  \/ \E t \in SThreads : try_pop_check(t)
  \/ \E t \in SThreads : try_pop_read(t)
  \/ \E t \in SThreads : try_pop_store(t)

SpecStage == InitStage /\ [][NextStage]_vars

\* Every step of thread t inside a try_push or try_pop call.
CallStep(t) ==
  \/ try_push_load_tail(t) \/ try_push_check(t) \/ try_push_write(t) \/ try_push_store(t)
  \/ try_pop_load_head(t) \/ try_pop_check(t) \/ try_pop_read(t) \/ try_pop_store(t)

\* The steps of a thread that is inside processLoop.  Calling processLoop is
\* not among them: no code of the stage makes that call.
WorkerStep ==
  processLoop_while \/ processLoop_popped \/ processLoop_pushed \/ CallStep("worker")

FeederStep == feeder_call \/ CallStep("feeder")

DrainerStep == drainer_call \/ CallStep("drainer")

\* SpecStage with every running thread scheduled fairly.
SpecStageFair ==
  /\ InitStage /\ [][NextStage]_vars
  /\ WF_vars(WorkerStep) /\ WF_vars(FeederStep) /\ WF_vars(DrainerStep)

\* SpecStage with only the worker scheduled fairly: the feeder may stop
\* feeding and the drainer may never drain.
SpecStageWorkerFair == InitStage /\ [][NextStage]_vars /\ WF_vars(WorkerStep)

-----------------------------------------------------------------------------
(* Properties of the queue, checked under SpecQ. *)

IsPrefix(s, t) == Len(s) <= Len(t) /\ SubSeq(t, 1, Len(s)) = s

\* The number of items queue k holds: pushed successfully and not yet popped.
Held(k) == Len(pushed[k]) - Len(popped[k])

\* No thread is inside a call.
Quiescent == \A t \in DOMAIN threads : threads[t].pc = "idle"

\* C1 (FIFO): in every reachable state, for every constructed queue, the values
\* returned by the successful try_pop calls are, in order, a prefix of the
\* values of the successful try_push calls.
C1_Fifo == \A k \in DOMAIN queues : IsPrefix(popped[k], pushed[k])

\* C1 witness: every pushed value has been popped again, after more pops than the
\* queue has slots, so head and tail have both wrapped around.
C1_Witness ==
  /\ "q" \in DOMAIN queues
  /\ Len(popped["q"]) > queues["q"].capacity_ + 1
  /\ popped["q"] = pushed["q"]

\* C2 (concurrent SPSC): under every interleaving of the steps of try_push and
\* try_pop, the consumer receives 0, 1, 2, ... in ascending order without a
\* duplicate, never more than N items nor an item not yet pushed, and nothing is
\* lost: whenever the queue is empty everything pushed has been received, so
\* once the N pushes are done the consumer's N pops return exactly 0..N-1.
C2_ConcurrentExact ==
  \A k \in DOMAIN queues :
    /\ popped[k] = [i \in 1..Len(popped[k]) |-> i - 1]
    /\ Len(popped[k]) <= Len(pushed[k])
    /\ Len(pushed[k]) <= MaxItems
    /\ queues[k].head_ = queues[k].tail_ => popped[k] = pushed[k]
    /\ Len(popped[k]) = MaxItems => popped[k] = [i \in 1..MaxItems |-> i - 1]

\* C2 witness: all N items were received through a queue of capacity smaller
\* than N, in a run where steps of the two threads' calls interleaved.
C2_Witness ==
  /\ "q" \in DOMAIN queues
  /\ queues["q"].capacity_ < MaxItems
  /\ Len(popped["q"]) = MaxItems
  /\ overlapped

\* C3 (capacity bound): a queue never holds more than capacity_ items, and a
\* try_push whose full test runs while no other call is in progress returns
\* false exactly when capacity_ items are held, which is exactly when full().
C3_CapacityBound ==
  [][\A k \in DOMAIN queues' :
       /\ Len(pushed'[k]) - Len(popped'[k]) <= queues'[k].capacity_
       /\ \A t \in DOMAIN threads :
            (try_push_check(t) /\ threads[t].q = k /\ ~OtherInCall(t)) =>
              /\ (threads'[t].ret = "false") <=> (Held(k) = queues[k].capacity_)
              /\ (threads'[t].ret = "false") <=> full(queues[k])]_vars

\* C3 witness: with no call in progress the last try_push returned false, the
\* queue holds capacity_ items and full() is true.
C3_Witness ==
  /\ "q" \in DOMAIN queues
  /\ Quiescent
  /\ threads["producer"].ret = "false"
  /\ Held("q") = queues["q"].capacity_
  /\ full(queues["q"])

\* C4 (empty/full disjointness): in every reachable state empty() and full()
\* are not both true, empty() is true exactly when no item is held, and full()
\* exactly when capacity_ items are held.
C4_EmptyFullDisjoint ==
  \A k \in DOMAIN queues :
    /\ ~(empty(queues[k]) /\ full(queues[k]))
    /\ empty(queues[k]) <=> (Held(k) = 0)
    /\ full(queues[k]) <=> (Held(k) = queues[k].capacity_)

\* C4 witness: a full queue whose tail has wrapped around to below head.
C4_Witness ==
  /\ "q" \in DOMAIN queues
  /\ full(queues["q"])
  /\ queues["q"].tail_ < queues["q"].head_

\* C5 (size): whenever no call is in progress, size() is the number of items
\* pushed and not yet popped, a value in 0..capacity_.
C5_SizeIsHeld ==
  \A k \in DOMAIN queues :
    Quiescent =>
      /\ size(queues[k]) = Held(k)
      /\ size(queues[k]) \in 0..queues[k].capacity_

\* C6 (construction): a constructor call with capacity 0 throws runtime_error
\* and leaves no queue; with a capacity > 0 it throws nothing and leaves an empty
\* queue of capacity + 1 slots with head_ = tail_ = 0; and while no queue exists
\* no thread is ever inside a call on it.
C6_Construction ==
  [][/\ \A c \in 0..MaxCap :
          Construct("q", c) =>
            IF c = 0
              THEN thrown' = "runtime_error" /\ "q" \notin DOMAIN queues'
              ELSE /\ thrown' = "none"
                   /\ "q" \in DOMAIN queues'
                   /\ queues'["q"].capacity_ = c
                   /\ queues'["q"].head_ = 0 /\ queues'["q"].tail_ = 0
                   /\ empty(queues'["q"]) /\ size(queues'["q"]) = 0
                   /\ Cardinality(DOMAIN queues'["q"].buffer_) = c + 1
     /\ "q" \notin DOMAIN queues' =>
          (\A t \in DOMAIN threads' : threads'[t].pc = "idle") /\ pushed'["q"] = <<>>]_vars

\* C6 witness: a constructor call with capacity 0 has thrown and no queue exists.
C6_Witness == thrown = "runtime_error" /\ "q" \notin DOMAIN queues

-----------------------------------------------------------------------------
(* Properties of the stage, checked under SpecStage. *)

\* transform(x1), transform(x2), ...
Transformed(s) == [i \in 1..Len(s) |-> processData(s[i])]

\* s is t with some elements left out, the order kept.
RECURSIVE IsSubseq(_, _)
IsSubseq(s, t) ==
  IF s = <<>> THEN TRUE
  ELSE IF t = <<>> THEN FALSE
  ELSE IF Head(s) = Head(t) THEN IsSubseq(Tail(s), Tail(t))
  ELSE IsSubseq(s, Tail(t))

\* The worker has popped an item that it has not pushed yet.
InFlight == Len(popped["in"]) = Len(pushed["out"]) + 1

C8_Backpressure ==
  ~stopCalled =>
    /\ Len(popped["in"]) - Len(pushed["out"]) \in {0, 1}
    /\ pushed["out"] = SubSeq(Transformed(popped["in"]), 1, Len(pushed["out"]))
    /\ (wpc \in {"none", "while"} \/ (wpc = "try_pop" /\ threads["worker"].pc # "idle"))
         => Len(popped["in"]) = Len(pushed["out"])
    /\ InFlight =>
         \/ wpc = "try_pop" /\ threads["worker"].pc = "idle" /\ threads["worker"].ret = "true"
         \/ /\ wpc = "try_push"
            /\ output_data = processData(popped["in"][Len(popped["in"])])
            /\ threads["worker"].pc # "idle" =>
                 threads["worker"].q = "out" /\ threads["worker"].value = output_data

\* C8 witness: the flag never cleared, the output queue full, and the worker,
\* holding the next item, has just had try_push return false.
C8_Witness ==
  /\ ~stopCalled
  /\ InFlight
  /\ full(queues["out"])
  /\ wpc = "try_push"
  /\ threads["worker"].pc = "idle"
  /\ threads["worker"].ret = "false"
  /\ Len(pushed["out"]) >= 1

\* C9 (destruction stops and joins): once the stage is destroyed, the running
\* flag has been cleared and no thread is executing processLoop or is inside a
\* call on one of its queues.
C9_DestroyStopsAndJoins ==
  ~alive => /\ running_ = FALSE
            /\ wpc = "none"
            /\ threads["worker"].pc = "idle"

\* C10 (start): start() from Stopped leaves the stage Running with a worker
\* executing the run loop; start() while Running changes nothing.
C10_StartSpawnsWorker ==
  [][start =>
       IF running_
         THEN UNCHANGED vars
         ELSE running_' /\ wpc' # "none"]_vars

\* An output item equal to the transform of the n-th fed item has been pushed.
Delivered(n) ==
  \E j \in 1..Len(pushed["out"]) : pushed["out"][j] = processData(FeedValue(n - 1))

\* C11 (restart): an item whose push to the input queue completes after a
\* stop() and a later start(), with the stage Running, is eventually
\* transformed and pushed to the output queue, unless the stage is stopped
\* again or destroyed first; and the output keeps the input's order.
C11_RestartDelivers ==
  /\ [](alive => IsSubseq(pushed["out"], Transformed(pushed["in"])))
  /\ \A n \in 1..StageItems :
       (/\ alive /\ running_ /\ stopCalled
        /\ threads["feeder"].pc = "push_store"
        /\ Len(pushed["in"]) = n - 1)
         ~> (~running_ \/ ~alive \/ Delivered(n))

Holding ==
  \/ wpc = "try_pop" /\ threads["worker"].pc = "idle" /\ threads["worker"].ret = "true"
  \/ wpc = "try_push" /\ ~(threads["worker"].pc = "idle" /\ threads["worker"].ret = "true")

\* The number of items popped from the input queue that were neither pushed to
\* the output queue nor are still held by the worker.
Lost == Len(popped["in"]) - Len(pushed["out"]) - (IF Holding THEN 1 ELSE 0)

\* C13 (at most once across a stop): while the stage lives, the output is the
\* transform of the popped input with items left out, never one twice or out
\* of order; what was popped is the front of what was fed, the rest stays in
\* the input queue; and an item is lost only one at a time, by the step of the
\* push-retry loop that, after a false try_push with the item held, observes
\* the flag cleared by stop(), and that step leaves both queues untouched.
C13_AtMostOnce ==
  [][alive' =>
       /\ IsSubseq(pushed'["out"], Transformed(popped'["in"]))
       /\ IsPrefix(popped'["in"], pushed'["in"])
       /\ Lost' \in {Lost, Lost + 1}
       /\ Lost' = Lost + 1 =>
            /\ processLoop_pushed
            /\ Holding /\ threads["worker"].ret = "false"
            /\ ~running_ /\ stopCalled
            /\ queues' = queues]_vars

\* C13 witness: the stage was stopped while the worker held the second item,
\* then started again: 3 and 11 were delivered, 7 was lost, nothing else.
C13_Witness ==
  /\ alive
  /\ Lost = 1
  /\ pushed["in"] = <<3, 7, 11>>
  /\ pushed["out"] = <<6, 22>>

\* Thread t takes the step that enters a call.
Enters(t) == threads[t].pc = "idle" /\ threads'[t].pc # "idle"

\* Thread t takes the step that returns false from its call.
ReturnsFalse(t) ==
  threads[t].pc # "idle" /\ threads'[t].pc = "idle" /\ threads'[t].ret = "false"

\* C14 (a failing call changes nothing): false is returned only by the full
\* test of try_push and the emptiness test of try_pop, and every step of a call
\* up to and including that test (entering, loading the own index, the test)
\* leaves head_, tail_ and every slot of every queue as they were, records no
\* push or pop, and leaves the caller's output variable of try_pop unchanged.
C14_FailureChangesNothing ==
  [][\A t \in DOMAIN threads :
       /\ ReturnsFalse(t) => (try_push_check(t) \/ try_pop_check(t))
       /\ (\/ Enters(t) \/ ReturnsFalse(t)
           \/ try_push_load_tail(t) \/ try_push_check(t)
           \/ try_pop_load_head(t) \/ try_pop_check(t)) =>
            /\ queues' = queues
            /\ pushed' = pushed /\ popped' = popped
            /\ (threads[t].pc \in {"pop_load_head", "pop_check"} \/ threads'[t].pc = "pop_load_head")
                 => threads'[t].value = threads[t].value]_vars

\* C14 witness: with no call in progress, the consumer's last try_pop returned
\* false on an empty queue whose slots still hold old values, and its output
\* variable still holds the value of its last successful pop.
C14_Witness ==
  /\ "q" \in DOMAIN queues
  /\ Quiescent
  /\ threads["consumer"].ret = "false"
  /\ Len(popped["q"]) >= 2
  /\ threads["consumer"].value = popped["q"][Len(popped["q"])]
  /\ queues["q"].buffer_[queues["q"].head_] # threads["consumer"].value

\* The slots of queue k that hold a value published and not yet popped.
Occupied(k) ==
  {(queues[k].head_ + i) % (queues[k].capacity_ + 1) : i \in 0..(Held(k) - 1)}

\* C15 (slot exclusivity): a producer about to write a slot writes the slot at
\* index tail_, which holds no published, unread value; a consumer about to read
\* a slot reads the slot at index head_, which holds one; so when both accesses
\* are pending on the same queue they are to different slots.
C15_SlotExclusive ==
  \A k \in DOMAIN queues : \A p \in DOMAIN threads : \A c \in DOMAIN threads :
    /\ (threads[p].pc = "push_write" /\ threads[p].q = k) =>
         /\ threads[p].current_tail = queues[k].tail_
         /\ threads[p].current_tail \notin Occupied(k)
    /\ (threads[c].pc = "pop_read" /\ threads[c].q = k) =>
         /\ threads[c].current_head = queues[k].head_
         /\ threads[c].current_head \in Occupied(k)
    /\ (/\ threads[p].pc = "push_write" /\ threads[p].q = k
        /\ threads[c].pc = "pop_read" /\ threads[c].q = k) =>
         threads[p].current_tail # threads[c].current_head

\* C15 witness: the producer is about to write and the consumer about to read,
\* at the same time, on a queue whose tail has wrapped around to below head.
C15_Witness ==
  /\ "q" \in DOMAIN queues
  /\ threads["producer"].pc = "push_write"
  /\ threads["consumer"].pc = "pop_read"
  /\ threads["producer"].current_tail < threads["consumer"].current_head

\* C16 (stop responsiveness): with the worker scheduled fairly, whatever the
\* feeder and the drainer do, once stop() has cleared the flag of a living
\* stage a thread inside processLoop eventually returns from it, unless
\* start() sets the flag again or the stage is destroyed first.
C16_StopResponsive ==
  (alive /\ stopCalled /\ ~running_ /\ wpc # "none")
    ~> (wpc = "none" \/ running_ \/ ~alive)

\* C16 witness: the flag is cleared while the worker is in the push-retry
\* loop, try_push having just returned false on the full output queue.
C16_Witness ==
  /\ alive /\ stopCalled /\ ~running_
  /\ wpc = "try_push"
  /\ threads["worker"].pc = "idle"
  /\ threads["worker"].ret = "false"
  /\ full(queues["out"])

\* C18 (progress of the retry loops): with producer and consumer weakly fair,
\* once the queue exists each of the N pushes eventually succeeds and each of
\* the N pops eventually succeeds; the two loops never starve each other.
C18_Progress ==
  \A n \in 1..MaxItems :
    ("q" \in DOMAIN queues) ~> (Len(pushed["q"]) >= n /\ Len(popped["q"]) >= n)

\* C18 witness: both loops are done through a queue of capacity 1, which the
\* producer found full and the consumer found empty along the way.
C18_Witness ==
  /\ "q" \in DOMAIN queues
  /\ queues["q"].capacity_ = 1
  /\ Quiescent
  /\ Len(pushed["q"]) = MaxItems
  /\ Len(popped["q"]) = MaxItems

\* C19 (index ownership, single-step advance): head_ and tail_ stay in
\* 0..capacity_; tail_ changes only by the last step of a try_push, which returns
\* true, to (tail_ + 1) mod (capacity_ + 1); head_ changes only by the last step
\* of a try_pop, which returns true, to (head_ + 1) mod (capacity_ + 1); no step
\* of try_push changes head_, no step of try_pop changes tail_, and every call
\* that returns true has advanced its index.
C19_IndexOwnership ==
  [][\A k \in (DOMAIN queues) \cap (DOMAIN queues') :
       LET q == queues[k]
           r == queues'[k]
       IN  /\ r.head_ \in 0..r.capacity_ /\ r.tail_ \in 0..r.capacity_
           /\ r.tail_ # q.tail_ =>
                /\ \E t \in DOMAIN threads :
                     try_push_store(t) /\ threads[t].q = k /\ threads'[t].ret = "true"
                /\ r.tail_ = (q.tail_ + 1) % (q.capacity_ + 1)
                /\ r.head_ = q.head_
           /\ r.head_ # q.head_ =>
                /\ \E t \in DOMAIN threads :
                     try_pop_store(t) /\ threads[t].q = k /\ threads'[t].ret = "true"
                /\ r.head_ = (q.head_ + 1) % (q.capacity_ + 1)
                /\ r.tail_ = q.tail_
           /\ \A t \in DOMAIN threads :
                (threads[t].q = k /\ threads[t].pc # "idle" /\ threads'[t].ret = "true") =>
                  IF threads[t].pc = "push_store"
                    THEN r.tail_ = (q.tail_ + 1) % (q.capacity_ + 1)
                    ELSE r.head_ = (q.head_ + 1) % (q.capacity_ + 1)]_vars

\* C19 witness: tail has just wrapped from capacity_ to 0 by a successful push
\* while head is in the middle of the ring.
C19_Witness ==
  /\ "q" \in DOMAIN queues
  /\ queues["q"].capacity_ >= 2
  /\ queues["q"].tail_ = 0
  /\ queues["q"].head_ \in 1..(queues["q"].capacity_ - 1)
  /\ threads["producer"].pc = "idle"
  /\ threads["producer"].ret = "true"
  /\ Len(pushed["q"]) = queues["q"].capacity_ + 1

====
